---- MODULE Spec2Model ----
(***************************************************************************)
(* cppopt, examples/2d_newtonraphson.cpp: the Newton-Raphson example.      *)
(*                                                                         *)
(* main() minimises f(x,y) = x^2 + y^2 + 2x + 8y by calling                *)
(* cppopt::newtonRaphson(df, ddf, x) in a loop that runs while the last    *)
(* status is SUCCESS and df(x).norm() > 0.001f, then asserts that x is     *)
(* within 0.001 of (-1, -4).                                               *)
(*                                                                         *)
(* All numbers of the program are cppopt::Scalar values.  The literals of  *)
(* the example (2.f, 8.f, 0.001f) are single precision, and the model      *)
(* computes in IEEE-754 binary32 with round-to-nearest-even, overflow to   *)
(* infinity, gradual underflow and NaN.  Signed zeros are not told apart:  *)
(* no comparison of the program depends on the sign of a zero.             *)
(*                                                                         *)
(* The step cppopt::newtonRaphson itself lives in cppopt/newton_raphson.h, *)
(* which is included by the example but is not among the source files; it  *)
(* is modelled from section 4.2 of the specification.                      *)
(***************************************************************************)
EXTENDS Integers, Naturals, Sequences, FiniteSets, TLC

VARIABLES pc, x, ri, hess, x0, xold, dx, hist

vars == <<pc, x, ri, hess, x0, xold, dx, hist>>

(***************************************************************************)
(* cppopt::Scalar: binary32.  A finite value is m * 2^e, kept canonical    *)
(* (m odd, or m = 0 and e = 0).                                            *)
(***************************************************************************)
MantBits == 24

EMin == -149

EMaxTop == 128

Fin(m, e) == [k |-> "fin", m |-> m, e |-> e]

Zero == Fin(0, 0)

PInf == [k |-> "inf", m |-> 1, e |-> 0]

NInf == [k |-> "inf", m |-> -1, e |-> 0]

NaN == [k |-> "nan", m |-> 0, e |-> 0]

Inf(s) == IF s < 0 THEN NInf ELSE PInf

IsFinite(v) == v.k = "fin"

IsNaN(v) == v.k = "nan"

Abs(n) == IF n < 0 THEN -n ELSE n

Sgn(n) == IF n < 0 THEN -1 ELSE 1

Max(a, b) == IF a >= b THEN a ELSE b

\* Number of bits of a natural number below 2^31.
BitLen(a) ==
    IF a >= 2^30 THEN 31
    ELSE CHOOSE n \in 0..30 : a < 2^n /\ (n = 0 \/ a >= 2^(n - 1))

\* The canonical form of m * 2^e.
Canon(m, e) ==
    IF m = 0 THEN Zero
    ELSE LET t == CHOOSE t \in 0..30 :
                      Abs(m) % (2^t) = 0 /\ Abs(m) % (2^(t + 1)) # 0
         IN  Fin(m \div (2^t), e + t)

\* The 24-bit normalised significand and its exponent of a finite non-zero v.
NM(v) == Abs(v.m) * 2^(MantBits - BitLen(Abs(v.m)))

NE(v) == v.e - (MantBits - BitLen(Abs(v.m)))

(***************************************************************************)
(* Round(s, a, e, st): the binary32 nearest to s * (a + f) * 2^e, where    *)
(* 0 < f < 1 when st (sticky) and f = 0 otherwise; ties go to the even     *)
(* significand.  a < 2^30, and st only with a >= 2^25.                     *)
(***************************************************************************)
Round(s, a, e, st) ==
    IF a = 0 THEN Zero
    ELSE LET L == BitLen(a)
             t == Max(e + L - MantBits, EMin)
         IN  IF t <= e
             THEN IF e + L > EMaxTop THEN Inf(s) ELSE Canon(s * a, e)
             ELSE LET sh == t - e IN
                  IF sh > 30 THEN Zero
                  ELSE LET q    == a \div (2^sh)
                           r    == a % (2^sh)
                           half == 2^(sh - 1)
                           up   == r > half \/ (r = half /\ (st \/ q % 2 = 1))
                           q2   == IF up THEN q + 1 ELSE q
                       IN  IF q2 = 0 THEN Zero
                           ELSE IF BitLen(q2) + t > EMaxTop THEN Inf(s)
                           ELSE Canon(s * q2, t)

FNeg(v) == [v EXCEPT !.m = -v.m]

FAbs(v) == [v EXCEPT !.m = Abs(v.m)]

\* The sum of two finite non-zero values, hi the one of no smaller exponent.
AddOrdered(hi, lo) ==
    LET d == NE(hi) - NE(lo) IN
    IF d <= 5
    THEN LET sum == Sgn(hi.m) * NM(hi) * 2^d + Sgn(lo.m) * NM(lo)
         IN  Round(Sgn(sum), Abs(sum), NE(lo), FALSE)
    ELSE LET k   == d - 3
             q   == IF k >= MantBits THEN 0 ELSE NM(lo) \div (2^k)
             st  == k >= MantBits \/ NM(lo) % (2^k) # 0
             mag == IF Sgn(hi.m) = Sgn(lo.m)
                    THEN 8 * NM(hi) + q
                    ELSE 8 * NM(hi) - q - (IF st THEN 1 ELSE 0)
         IN  Round(Sgn(hi.m), mag, NE(hi) - 3, st)

FAdd(a, b) ==
    IF IsNaN(a) \/ IsNaN(b) THEN NaN
    ELSE IF a.k = "inf" THEN (IF b.k = "inf" /\ b.m # a.m THEN NaN ELSE a)
    ELSE IF b.k = "inf" THEN b
    ELSE IF a.m = 0 THEN b
    ELSE IF b.m = 0 THEN a
    ELSE IF NE(a) >= NE(b) THEN AddOrdered(a, b) ELSE AddOrdered(b, a)

FSub(a, b) == FAdd(a, FNeg(b))

\* The product of two significands of more than 30 bits together.
MulWide(s, a, b, e) ==
    LET A1  == a \div 4096
        A0  == a % 4096
        B1  == b \div 4096
        B0  == b % 4096
        P1  == A1 * B0 + A0 * B1
        low == (P1 % 4096) * 4096 + A0 * B0
        lo  == low % (2^24)
        hi  == A1 * B1 + (P1 \div 4096) + (low \div (2^24))
        k   == BitLen(hi) - 5
    IN  Round(s, hi * 2^(24 - k) + (lo \div (2^k)), e + k, lo % (2^k) # 0)

FMul(a, b) ==
    IF IsNaN(a) \/ IsNaN(b) THEN NaN
    ELSE IF a.k = "inf" \/ b.k = "inf"
         THEN (IF a.m = 0 \/ b.m = 0 THEN NaN ELSE Inf(a.m * b.m))
    ELSE IF a.m = 0 \/ b.m = 0 THEN Zero
    ELSE IF BitLen(Abs(a.m)) + BitLen(Abs(b.m)) <= 30
         THEN Round(Sgn(a.m) * Sgn(b.m), Abs(a.m) * Abs(b.m), a.e + b.e, FALSE)
    ELSE MulWide(Sgn(a.m) * Sgn(b.m), Abs(a.m), Abs(b.m), a.e + b.e)

\* n more quotient bits of r / b (r < b), appended to q: <<quotient, remainder>>.
RECURSIVE DivBits(_, _, _, _)
DivBits(r, b, n, q) ==
    IF n = 0 THEN <<q, r>>
    ELSE IF 2 * r >= b THEN DivBits(2 * r - b, b, n - 1, 2 * q + 1)
    ELSE DivBits(2 * r, b, n - 1, 2 * q)

FDiv(a, b) ==
    IF IsNaN(a) \/ IsNaN(b) THEN NaN
    ELSE IF a.k = "inf"
         THEN (IF b.k = "inf" THEN NaN ELSE Inf(a.m * Sgn(b.m)))
    ELSE IF b.k = "inf" THEN Zero
    ELSE IF b.m = 0 THEN (IF a.m = 0 THEN NaN ELSE Inf(a.m))
    ELSE IF a.m = 0 THEN Zero
    ELSE LET n  == NM(a) * 32
             d  == Abs(b.m)
             q0 == n \div d
             nb == 29 - BitLen(q0)
             qr == DivBits(n % d, d, nb, q0)
         IN  Round(Sgn(a.m) * Sgn(b.m), qr[1], NE(a) - 5 - b.e - nb, qr[2] # 0)

\* Bit pairs i, i-1, ..., -14 of the square root of n: <<root, remainder>>.
RECURSIVE SqrtBits(_, _, _, _)
SqrtBits(n, i, s, r) ==
    IF i < -14 THEN <<s, r>>
    ELSE LET r4 == 4 * r + (IF i >= 0 THEN (n \div (4^i)) % 4 ELSE 0)
             t  == 4 * s + 1
         IN  IF r4 >= t THEN SqrtBits(n, i - 1, 2 * s + 1, r4 - t)
             ELSE SqrtBits(n, i - 1, 2 * s, r4)

FSqrt(a) ==
    IF IsNaN(a) THEN NaN
    ELSE IF a.m < 0 THEN NaN
    ELSE IF a.k = "inf" THEN PInf
    ELSE IF a.m = 0 THEN Zero
    ELSE LET odd == NE(a) % 2 = 1
             n   == IF odd THEN 2 * NM(a) ELSE NM(a)
             e2  == IF odd THEN NE(a) - 1 ELSE NE(a)
             sr  == SqrtBits(n, 12, 0, 0)
         IN  Round(1, sr[1], (e2 \div 2) - 14, sr[2] # 0)

\* a < b and a > b; false when either is NaN.
FLt(a, b) == LET d == FSub(a, b) IN ~IsNaN(a) /\ ~IsNaN(b) /\ ~IsNaN(d) /\ d.m < 0

FGt(a, b) == FLt(b, a)

(***************************************************************************)
(* The literals of the example.                                            *)
(***************************************************************************)
Two == Fin(1, 1)

Eight == Fin(1, 3)

MinusOne == Fin(-1, 0)

MinusFour == Fin(-1, 2)

\* 0.001f, and Scalar(0.001): 0x3A83126F.
Tol == Fin(8589935, -33)

\* The start solution of the example, x = (-3, -2).
StartExample == <<Fin(-3, 0), Fin(-1, 1)>>

\* The minimum of f named by the example's comment, (-1, -4).
Optimum == <<MinusOne, MinusFour>>

(***************************************************************************)
(* The callables of the example.  A vector is a sequence of scalars, a     *)
(* matrix a sequence of rows.                                              *)
(***************************************************************************)
\* df with the constant of the second component mistyped (2.f for 8.f).
dfTypo(v) == <<FAdd(FMul(Two, v[1]), Two), FAdd(FMul(Two, v[2]), Two)>>

df(v) == <<FAdd(FMul(Two, v[1]), Two), FAdd(FMul(Two, v[2]), Eight)>>

\* ddf with the diagonal mistyped (1.f for 2.f).
ddfIdentity(v) == <<<<Fin(1, 0), Zero>>, <<Zero, Fin(1, 0)>>>>

ddf(v) == <<<<Two, Zero>>, <<Zero, Two>>>>

\* Hessian callables a caller may pass instead: singular matrices.
ZeroHessian(v) == <<<<Zero, Zero>>, <<Zero, Zero>>>>

RankOneHessian(v) == <<<<Two, Fin(1, 2)>>, <<Fin(1, 0), Two>>>>

HessianNames == {"ddf", "zero", "rankone"}

CallHessian(h, v) ==
    CASE h = "ddf"     -> ddf(v)
      [] h = "zero"    -> ZeroHessian(v)
      [] h = "rankone" -> RankOneHessian(v)

\* Matrix::norm() of a vector: the square root of the sum of the squares.
Norm(v) == FSqrt(FAdd(FMul(v[1], v[1]), FMul(v[2], v[2])))

(***************************************************************************)
(* cppopt::newtonRaphson(df, ddf, x): one Newton step.  g = df(x),         *)
(* H = ddf(x); a singular H is reported without an update; otherwise       *)
(* H * dx = -g is solved, x becomes x + dx and the status is SUCCESS.      *)
(***************************************************************************)
ResultInfo == {"SUCCESS", "DEGENERATE"}

Det(H) == FSub(FMul(H[1][1], H[2][2]), FMul(H[1][2], H[2][1]))

Singular(H) == Det(H) = Zero

\* Solve with the sign of the right-hand side lost: H * dx = g.
SolveSignSlip(H, g) ==
    <<FDiv(FSub(FMul(H[2][2], g[1]), FMul(H[1][2], g[2])), Det(H)),
      FDiv(FSub(FMul(H[1][1], g[2]), FMul(H[2][1], g[1])), Det(H))>>

\* dx with H * dx = -g: dx = -(adj H / det H) * g.
Solve(H, g) ==
    <<FDiv(FSub(FMul(H[1][2], g[2]), FMul(H[2][2], g[1])), Det(H)),
      FDiv(FSub(FMul(H[2][1], g[1]), FMul(H[1][1], g[2])), Det(H))>>

\* VAdd keeping only the first row of the sum.
VAddFirstRow(v, d) == [i \in {1} |-> FAdd(v[i], d[i])]

\* x + dx; the sum has the dimension of dx.
VAdd(v, d) == [i \in DOMAIN d |-> FAdd(v[i], d[i])]

VNeg(v) == [i \in DOMAIN v |-> FNeg(v[i])]

\* H * d.
MatVec(H, d) ==
    [i \in DOMAIN H |-> FAdd(FMul(H[i][1], d[1]), FMul(H[i][2], d[2]))]

\* The step without the singularity test.
newtonRaphsonUnchecked(h, v) ==
    LET g == df(v)
        H == CallHessian(h, v)
    IN  [ri |-> "SUCCESS", x |-> VAdd(v, Solve(H, g)), dx |-> Solve(H, g)]

\* The step testing for singularity only after the update.
newtonRaphsonUpdateFirst(h, v) ==
    LET g == df(v)
        H == CallHessian(h, v)
    IN  [ri |-> IF Singular(H) THEN "DEGENERATE" ELSE "SUCCESS",
         x |-> VAdd(v, Solve(H, g)), dx |-> Solve(H, g)]

newtonRaphson(h, v) ==
    LET g == df(v)
        H == CallHessian(h, v)
    IN  IF Singular(H)
        THEN [ri |-> "DEGENERATE", x |-> v, dx |-> <<Zero, Zero>>]
        ELSE [ri |-> "SUCCESS", x |-> VAdd(v, Solve(H, g)), dx |-> Solve(H, g)]

(***************************************************************************)
(* Starting points.  The example starts at (-3, -2); the step and the loop *)
(* are specified for any finite starting point, and each coordinate is     *)
(* drawn from small integers, the optimum and its binary32 neighbour, a    *)
(* fraction that is not dyadic (0.1f), values whose gradient rounds        *)
(* (1048575.9375f, 1e10f) and the largest finite value (FLT_MAX).          *)
(***************************************************************************)
StartValues ==
    { Fin(-3, 0), Fin(-1, 1), MinusOne, MinusFour, Zero, Fin(5, 0),
      Fin(-16777215, -24), Fin(13421773, -27), Fin(16777215, -4),
      Fin(9765625, 10), Fin(16777215, 104) }

Starts == { <<a, b>> : a \in StartValues, b \in StartValues }

\* Direct invocations of the step per run of StepSpec.
MaxCalls == 2

(***************************************************************************)
(* State.  pc: the place in main (or "direct" when the step is invoked on  *)
(* its own); x: the parameter vector; ri: the last status; hess: the       *)
(* Hessian callable passed to the step.  History: x0 the starting point,   *)
(* xold the vector on entry to the latest step, dx its Newton step, hist   *)
(* the vector after each invocation.                                       *)
(***************************************************************************)
InitCommon ==
    /\ x \in Starts
    /\ x0 = x
    /\ hess \in HessianNames
    /\ ri = "SUCCESS"
    /\ xold = x
    /\ dx = <<Zero, Zero>>
    /\ hist = <<>>

Init == pc = "while" /\ InitCommon

\* ri = cppopt::newtonRaphson(df, ddf, x), with its bookkeeping.
Invoke ==
    LET r == newtonRaphson(hess, x) IN
    /\ ri' = r.ri
    /\ x' = r.x
    /\ dx' = r.dx
    /\ xold' = x
    /\ hist' = Append(hist, r.x)

\* The loop condition without the test of the status.
LoopConditionNoStatus == FGt(Norm(df(x)), Tol)

\* while (ri == cppopt::SUCCESS && df(x).norm() > 0.001f)
LoopCondition == ri = "SUCCESS" /\ FGt(Norm(df(x)), Tol)

\* The loop as a do-while: the first pass is not guarded by the condition.
WhileDoWhile ==
    /\ pc = "while"
    /\ pc' = IF hist = <<>> \/ (ri = "SUCCESS" /\ FGt(Norm(df(x)), Tol))
             THEN "body" ELSE "assert80"
    /\ UNCHANGED <<x, ri, hess, x0, xold, dx, hist>>

While ==
    /\ pc = "while"
    /\ pc' = IF LoopCondition THEN "body" ELSE "assert80"
    /\ UNCHANGED <<x, ri, hess, x0, xold, dx, hist>>

\* The loop body: the step, then the printing of x and of df(x).norm().
Body ==
    /\ pc = "body"
    /\ Invoke
    /\ pc' = "while"
    /\ UNCHANGED <<hess, x0>>

\* The assertion with the comparison turned round.
AssertHoldsFlipped(i, c) == FGt(FAbs(FSub(x[i], c)), Tol)

\* assert(fabs(x(i) - Scalar(c)) < Scalar(0.001))
AssertHolds(i, c) == FLt(FAbs(FSub(x[i], c)), Tol)

Assert80 ==
    /\ pc = "assert80"
    /\ pc' = IF AssertHolds(1, MinusOne) THEN "assert81" ELSE "abort"
    /\ UNCHANGED <<x, ri, hess, x0, xold, dx, hist>>

Assert81 ==
    /\ pc = "assert81"
    /\ pc' = IF AssertHolds(2, MinusFour) THEN "return" ELSE "abort"
    /\ UNCHANGED <<x, ri, hess, x0, xold, dx, hist>>

Next == While \/ Body \/ Assert80 \/ Assert81

Spec == Init /\ [][Next]_vars

(***************************************************************************)
(* The step on its own: up to MaxCalls invocations from a starting point.  *)
(***************************************************************************)
StepInit == pc = "direct" /\ InitCommon

DirectCall ==
    /\ pc = "direct"
    /\ Len(hist) < MaxCalls
    /\ Invoke
    /\ UNCHANGED <<pc, hess, x0>>

StepNext == DirectCall

StepSpec == StepInit /\ [][StepNext]_vars

(***************************************************************************)
(* Properties.                                                             *)
(***************************************************************************)
AllFinite(v) == \A i \in DOMAIN v : IsFinite(v[i])

\* a + b is computed without rounding.
ExactSum(a, b) ==
    LET s == FAdd(a, b) IN IsFinite(s) /\ FSub(s, a) = b /\ FSub(s, b) = a

\* The gradient 2x+2, 2y+8 at p is computed without rounding or overflow.
GradExact(p) ==
    /\ ExactSum(FMul(Two, p[1]), Two)
    /\ ExactSum(FMul(Two, p[2]), Eight)

AfterLoop == {"assert80", "assert81", "return", "abort"}

\* C1, as stated: one invocation of the step on the example's quadratic, from
\* any finite starting point, returns SUCCESS and leaves x at (-1, -4).
C1_Original ==
    (hess = "ddf" /\ Len(hist) = 1) => (ri = "SUCCESS" /\ x = Optimum)

\* C1, amended: one invocation of the step on the example's quadratic returns
\* SUCCESS and leaves x at exactly (-1, -4) from every finite starting point
\* whose gradient 2x+2, 2y+8 is computed without rounding.
C1_ExactStartLandsOnOptimum ==
    (hess = "ddf" /\ Len(hist) = 1 /\ GradExact(x0))
        => (ri = "SUCCESS" /\ x = Optimum)

C1_Witness ==
    /\ hess = "ddf"
    /\ Len(hist) = 1
    /\ x0 = StartExample
    /\ x = Optimum

C3_SingularHessianIsReported ==
    /\ ri \in ResultInfo
    /\ (Len(hist) >= 1 /\ Singular(CallHessian(hess, xold)))
           => ri = "DEGENERATE"

C3_Witness ==
    /\ hess = "zero"
    /\ Len(hist) = 1
    /\ ri = "DEGENERATE"

C5_StepOnlyWhileSuccessAndResidual ==
    [][ /\ hist' # hist => (ri = "SUCCESS" /\ FGt(Norm(df(x)), Tol))
        /\ (pc = "while" /\ pc' = "assert80")
               => (ri # "SUCCESS" \/ ~FGt(Norm(df(x)), Tol))
        /\ ri # "SUCCESS" => hist' = hist ]_vars

C5_Witness ==
    /\ pc = "assert80"
    /\ ri = "DEGENERATE"
    /\ Len(hist) = 1

\* What C6 says of a run of the example's loop on the quadratic: at most one
\* invocation, after which the residual is below 0.001 (so the loop is left),
\* no assertion fails, and after the loop the status is SUCCESS.
C6_Outcome ==
    /\ Len(hist) <= 1
    /\ Len(hist) = 1 => FLt(Norm(df(x)), Tol)
    /\ pc # "abort"
    /\ pc \in AfterLoop
           => /\ ri = "SUCCESS"
              /\ FLt(Norm(df(x)), Tol)
              /\ x0 = StartExample => Len(hist) = 1

\* C6, as stated: from (-3, -2) the loop ends after exactly one invocation,
\* and from any finite starting point after at most one, with status
\* SUCCESS, gradient norm below 0.001 and both assertions holding.
C6_Original == hess = "ddf" => C6_Outcome

\* C6, amended: the same, from (-3, -2) and from every finite starting point
\* whose gradient is computed without rounding.
C6_ExactStartOneStep == (hess = "ddf" /\ GradExact(x0)) => C6_Outcome

C6_Witness ==
    /\ hess = "ddf"
    /\ x0 = StartExample
    /\ pc = "return"
    /\ Len(hist) = 1
    /\ x = Optimum

C8_Original ==
    (hess = "ddf" /\ Len(hist) >= 2)
        => /\ hist[2] = hist[1]
           /\ Len(hist) = 2 => (ri = "SUCCESS" /\ dx = <<Zero, Zero>>)

\* C8, amended: the same from every finite starting point whose gradient is
\* computed without rounding; every later step is a zero update too.
C8_ExactStartIdempotent ==
    (hess = "ddf" /\ Len(hist) >= 2 /\ GradExact(x0))
        => /\ \A i \in 2..Len(hist) : hist[i] = hist[1]
           /\ ri = "SUCCESS"
           /\ dx = <<Zero, Zero>>

C8_Witness ==
    /\ hess = "ddf"
    /\ Len(hist) = 2
    /\ GradExact(x0)
    /\ x0 # Optimum
    /\ x = Optimum
    /\ dx = <<Zero, Zero>>

C10_ConvergedStartTakesNoStep ==
    ~FGt(Norm(df(x0)), Tol)
        => (hist = <<>> /\ x = x0 /\ ri = "SUCCESS")

C10_Witness ==
    /\ pc = "return"
    /\ hist = <<>>
    /\ x0 # Optimum
    /\ ~FGt(Norm(df(x0)), Tol)
====
